---------------------------- MODULE Spec2Model ----------------------------
(***************************************************************************)
(* ATS-MINI remote backend (backend.py, screenshot.py).                    *)
(*                                                                         *)
(* The model follows the serial protocol engine of backend.py: the global  *)
(* device handle `ser`, the two locks, the telemetry reader thread, the    *)
(* command channel send_serial_raw, the screenshot handler and open_serial.*)
(* Text is modelled as sequences of one-character strings, so that strip,  *)
(* split, int() and unhexlify are computed the way the code computes them. *)
(* A readline call is two steps (the call, and its return), so that the    *)
(* model has states in which a thread is inside a read of the handle.      *)
(***************************************************************************)
EXTENDS Integers, Sequences, FiniteSets, TLC

-----------------------------------------------------------------------------
(* Bounds of the model *)

\* handles open_serial may create in one behaviour
MaxOpens == 2
\* lines the device emits in one behaviour
MaxEmit == 2
\* readline calls one timed loop makes before its deadline has passed
MaxIter == 2
\* requests one request thread serves in one behaviour
MaxCalls == 1
\* largest wait_lines argument tried
MaxWait == 2

(* Program constants *)
DEFAULT_BAUD == 112500
FALLBACK_BAUD == 9600
\* a baud rate other than the default, as --baud / ATS_BAUD may give
OTHER_BAUD == 115200

-----------------------------------------------------------------------------
(* Text helpers: str.strip, str.split, str.endswith, int() *)

NoText == <<>>
\* characters str.strip() removes
Whitespace == {" ", "\t", "\r", "\n"}
Digits == {"0", "1", "2", "3", "4", "5", "6", "7", "8", "9"}
HexDigits == Digits \cup {"A", "B", "C", "D", "E", "F", "a", "b", "c", "d", "e", "f"}
\* a byte that is not valid UTF-8, dropped by decode(errors="ignore")
BadByte == "?"

RECURSIVE LStrip(_)
LStrip(s) == IF s # <<>> /\ Head(s) \in Whitespace THEN LStrip(Tail(s)) ELSE s

RECURSIVE RStrip(_)
RStrip(s) ==
    IF s # <<>> /\ s[Len(s)] \in Whitespace THEN RStrip(SubSeq(s, 1, Len(s) - 1)) ELSE s

Strip(s) == RStrip(LStrip(s))

\* bytes.decode(errors="ignore")
Decode(raw) == SelectSeq(raw, LAMBDA c : c # BadByte)

\* raw.decode(errors="ignore").strip()
DecodeStrip(raw) == Strip(Decode(raw))

EndsWith(s, c) == s # <<>> /\ s[Len(s)] = c

Contains(s, c) == \E i \in 1..Len(s) : s[i] = c

\* str.split(sep): the fields between the separators, always at least one
RECURSIVE SplitFrom(_, _, _)
SplitFrom(s, sep, cur) ==
    IF s = <<>> THEN <<cur>>
    ELSE IF Head(s) = sep THEN <<cur>> \o SplitFrom(Tail(s), sep, <<>>)
    ELSE SplitFrom(Tail(s), sep, Append(cur, Head(s)))

Split(s, sep) == SplitFrom(s, sep, <<>>)

\* "sep".join(chunks)
RECURSIVE Join(_, _)
Join(chunks, sep) ==
    IF chunks = <<>> THEN <<>>
    ELSE IF Len(chunks) = 1 THEN chunks[1]
    ELSE chunks[1] \o <<sep>> \o Join(Tail(chunks), sep)

DigitVal(c) == CHOOSE n \in 0..9 : <<"0", "1", "2", "3", "4", "5", "6", "7", "8", "9">>[n + 1] = c

RECURSIVE DigitsVal(_, _)
DigitsVal(s, acc) == IF s = <<>> THEN acc ELSE DigitsVal(Tail(s), acc * 10 + DigitVal(Head(s)))

\* int(text): an optional sign and decimal digits; anything else raises ValueError
IntBody(s) == IF s # <<>> /\ Head(s) \in {"+", "-"} THEN Tail(s) ELSE s
IsInt(s) == LET b == IntBody(Strip(s)) IN b # <<>> /\ \A i \in 1..Len(b) : b[i] \in Digits
IntVal(s) ==
    LET t == Strip(s)
        v == DigitsVal(IntBody(t), 0)
    IN IF t # <<>> /\ Head(t) = "-" THEN -v ELSE v


-----------------------------------------------------------------------------
(* Python values held in the snapshot dict: a key that is not set, None,   *)
(* an int, or a str.                                                       *)

Missing == [kind |-> "absent", int |-> 0, text |-> NoText]
PyNone == [kind |-> "none", int |-> 0, text |-> NoText]
PyInt(n) == [kind |-> "int", int |-> n, text |-> NoText]
PyStr(s) == [kind |-> "str", int |-> 0, text |-> s]
\* bool(dict.get(key))
Truthy(v) == (v.kind = "int" /\ v.int # 0) \/ (v.kind = "str" /\ v.text # NoText)

\* a formatted frequency: num / 10^dec in the unit; unit "raw" is the fallback text,
\* unit "absent" a key that is not set. inexact marks a decimal tie whose rounding
\* depends on the binary value of the float.
AM_KHZ_LIMIT == 1000
NoFrequency == [num |-> 0, dec |-> 0, unit |-> "absent", inexact |-> FALSE]
Formatted(n, d, u) == [num |-> n, dec |-> d, unit |-> u, inexact |-> FALSE]

LowerCase == <<"a", "b", "c", "d", "e", "f", "g", "h", "i", "j", "k", "l", "m",
               "n", "o", "p", "q", "r", "s", "t", "u", "v", "w", "x", "y", "z">>
UpperCase == <<"A", "B", "C", "D", "E", "F", "G", "H", "I", "J", "K", "L", "M",
               "N", "O", "P", "Q", "R", "S", "T", "U", "V", "W", "X", "Y", "Z">>
UpperChar(c) ==
    IF \E i \in 1..26 : LowerCase[i] = c
    THEN UpperCase[CHOOSE i \in 1..26 : LowerCase[i] = c]
    ELSE c
\* str.upper()
Upper(s) == [i \in 1..Len(s) |-> UpperChar(s[i])]

\* round-half-even of n / 10^k for an exact decimal n; q is n with k digits dropped
RoundDiv(n, m) ==
    LET a == IF n < 0 THEN -n ELSE n
        q == a \div m
        r == a % m
        up == (2 * r > m) \/ (2 * r = m /\ q % 2 = 1)
        v == IF up THEN q + 1 ELSE q
    IN IF n < 0 THEN -v ELSE v

\* f"{khz / 1000.0:.2f} MHz": khz / 1000 is a binary float; a decimal tie (khz
\* ending in 5) is an exact tie only when 125 divides khz
FormatFM(khz) ==
    LET a == IF khz < 0 THEN -khz ELSE khz
    IN [num |-> RoundDiv(khz, 10), dec |-> 2, unit |-> "MHz",
        inexact |-> (a % 10 = 5 /\ a % 125 # 0)]

\* the kHz display of AM extended to 1000 kHz itself
format_frequency_am_inclusive(freq_khz, bfo_hz, mode) ==
    LET mm == Upper(mode)
    IN IF mm \in {<<"U", "S", "B">>, <<"L", "S", "B">>, <<"S", "S", "B">>}
       THEN Formatted(freq_khz * 1000 + bfo_hz, 6, "MHz")
       ELSE IF mm = <<"F", "M">> THEN FormatFM(freq_khz)
       ELSE IF mm = <<"A", "M">> /\ freq_khz <= AM_KHZ_LIMIT THEN Formatted(freq_khz, 0, "kHz")
       ELSE Formatted(freq_khz, 3, "MHz")

\* format_frequency(freq_khz, bfo_hz, mode) for int arguments and a str mode
format_frequency(freq_khz, bfo_hz, mode) ==
    LET mm == Upper(mode)
    IN IF mm \in {<<"U", "S", "B">>, <<"L", "S", "B">>, <<"S", "S", "B">>}
       THEN Formatted(freq_khz * 1000 + bfo_hz, 6, "MHz")
       ELSE IF mm = <<"F", "M">> THEN FormatFM(freq_khz)
       ELSE IF mm = <<"A", "M">> /\ freq_khz < AM_KHZ_LIMIT THEN Formatted(freq_khz, 0, "kHz")
       ELSE Formatted(freq_khz, 3, "MHz")

\* round(float(text) * 1.702 / 1000.0, 3) for an integer text, in thousandths of a volt
Voltage(text) ==
    IF IsInt(text) THEN PyInt(RoundDiv(IntVal(text) * 1702, 1000)) ELSE PyStr(text)

\* parts[i] of the code (0-based), "" when the line has fewer fields
Part(parts, i) == IF Len(parts) > i THEN parts[i + 1] ELSE NoText
HasPart(parts, i) == Len(parts) > i /\ parts[i + 1] # NoText
\* int(parts[i]) raises ValueError
BadInt(parts, i) == HasPart(parts, i) /\ ~IsInt(parts[i + 1])
IntOr(parts, i, dflt) == IF HasPart(parts, i) THEN PyInt(IntVal(parts[i + 1])) ELSE dflt

\* the position whose int() raised, 99 when none did: the keys assigned before
\* that statement are set, the later ones are not
FailAt(parts) ==
    IF BadInt(parts, 1) THEN 1
    ELSE IF BadInt(parts, 2) THEN 2
    ELSE IF BadInt(parts, 9) THEN 9
    ELSE IF BadInt(parts, 10) THEN 10
    ELSE IF BadInt(parts, 11) THEN 11
    ELSE 99

EmptyDict ==
    [raw_parts_count |-> Missing, fw_version |-> Missing,
     currentFrequency_raw |-> Missing, currentBFO |-> Missing,
     bandCal |-> Missing, bandName |-> Missing, mode |-> Missing,
     stepIdx |-> Missing, bandwidthIdx |-> Missing, agcIdx |-> Missing,
     volume |-> Missing, rssi_raw |-> Missing, snr_raw |-> Missing,
     tuningCapacitor |-> Missing, voltage |-> Missing, seqnum |-> Missing,
     frequency |-> NoFrequency, rssi |-> Missing, snr |-> Missing,
     parse_error |-> Missing]

\* lines 133-163: the dict built from the stripped fields
ParseParts(parts) ==
    LET f == FailAt(parts)
        freq == IntOr(parts, 1, PyInt(0))
        bfo == IntOr(parts, 2, PyInt(0))
        rssi_raw == IntOr(parts, 10, PyNone)
        snr_raw == IntOr(parts, 11, PyNone)
        Set(after, v) == IF f > after THEN v ELSE Missing
    IN [raw_parts_count |-> PyInt(Len(parts)),
        fw_version |-> PyStr(Part(parts, 0)),
        currentFrequency_raw |-> Set(2, freq),
        currentBFO |-> Set(2, bfo),
        bandCal |-> Set(2, PyStr(Part(parts, 3))),
        bandName |-> Set(2, PyStr(Part(parts, 4))),
        mode |-> Set(2, PyStr(Part(parts, 5))),
        stepIdx |-> Set(2, PyStr(Part(parts, 6))),
        bandwidthIdx |-> Set(2, PyStr(Part(parts, 7))),
        agcIdx |-> Set(2, PyStr(Part(parts, 8))),
        volume |-> Set(9, IntOr(parts, 9, PyNone)),
        rssi_raw |-> Set(10, rssi_raw),
        snr_raw |-> Set(11, snr_raw),
        tuningCapacitor |-> Set(11, PyStr(Part(parts, 12))),
        voltage |-> Set(11, IF HasPart(parts, 13) THEN Voltage(parts[14]) ELSE PyNone),
        seqnum |-> Set(11, PyStr(Part(parts, 14))),
        frequency |-> IF f > 11 THEN format_frequency(freq.int, bfo.int, Part(parts, 5))
                      ELSE NoFrequency,
        \* f"{rssi_raw} dBuV" and f"{snr_raw} dB" are held as the number they print
        rssi |-> Set(11, IF rssi_raw.kind = "int" THEN rssi_raw ELSE PyStr(NoText)),
        snr |-> Set(11, IF snr_raw.kind = "int" THEN snr_raw ELSE PyStr(NoText)),
        parse_error |-> IF f <= 11 THEN PyStr(parts[f + 1]) ELSE Missing]

\* line 132: parts = [p.strip() for p in line.split(",")], split once
parse_monitor_line(line) ==
    LET split == Split(line, ",")
    IN CHOOSE d \in {ParseParts(parts) : parts \in {[i \in 1..Len(split) |-> Strip(split[i])]}} :
           TRUE

\* the test of line 187 without its second half
ValidObservationAny(parsed) == parsed # EmptyDict

\* the test of line 187: parsed and (currentFrequency_raw or fw_version)
ValidObservation(parsed) ==
    /\ parsed # EmptyDict
    /\ Truthy(parsed.currentFrequency_raw) \/ Truthy(parsed.fw_version)

-----------------------------------------------------------------------------
(* Hex decoding of a captured stream (screenshot.py) *)

\* data.replace(b"\r", b"").replace(b"\n", b"")
HexClean(data) == SelectSeq(data, LAMBDA c : c \notin {"\r", "\n"})

HexVal(c) ==
    CHOOSE n \in 0..15 :
        \/ <<"0", "1", "2", "3", "4", "5", "6", "7", "8", "9",
             "A", "B", "C", "D", "E", "F">>[n + 1] = c
        \/ <<"0", "1", "2", "3", "4", "5", "6", "7", "8", "9",
             "a", "b", "c", "d", "e", "f">>[n + 1] = c

\* binascii.unhexlify raises binascii.Error on these
HexMalformed(s) == Len(s) % 2 = 1 \/ \E i \in 1..Len(s) : s[i] \notin HexDigits

\* binascii.unhexlify(s) of a well-formed s: the bytes, as numbers
Unhexlify(s) == [i \in 1..(Len(s) \div 2) |-> 16 * HexVal(s[2 * i - 1]) + HexVal(s[2 * i])]

-----------------------------------------------------------------------------
(* State *)

VARIABLES
    ser,              \* the global handle: 0 is None, else an index into handles
    handles,          \* every serial.Serial object created: [open, baud]
    rxbuf,            \* the port's input buffer: the raw lines not yet read
    wire,             \* every write made to the port: [by, cmd, data]
    emitted,          \* how many lines the device has sent
    serial_lock,      \* the thread holding serial_lock, or "free"
    data_lock,        \* the thread holding data_lock, or "free"
    latest_raw_line,
    monitor_parsed,
    monitor_active,
    monitor_requested,
    opener,           \* the thread calling open_serial
    reader,           \* monitor_reader_thread
    req,              \* the request threads (Flask handlers)
    fmt               \* a call of format_frequency: its arguments and its result

vars == <<ser, handles, rxbuf, wire, emitted, serial_lock, data_lock, latest_raw_line,
          monitor_parsed, monitor_active, monitor_requested, opener, reader, req, fmt>>

ReqThreads == {"r1", "r2"}
\* no call of format_frequency has been made
NoCall ==
    [freq_khz |-> 0, bfo_hz |-> 0, mode |-> NoText, returned |-> FALSE, out |-> NoFrequency]
Free == "free"
\* the screenshot loop's size cap, line 268
HEX_CAP == 10000000

NoResult == [status |-> "none", lines |-> <<>>, hex |-> NoText]

\* what api_monitor has read of the published state
NoPoll ==
    [parsed |-> EmptyDict, raw |-> NoText, monitor_active |-> FALSE,
     monitor_requested |-> FALSE]

IdleRequest ==
    [op |-> "none", pc |-> "idle", cmd |-> NoText, wait_lines |-> 0, lines |-> <<>>,
     h |-> 0, iters |-> 0, hex_chunks |-> <<>>, calls |-> 0, result |-> NoResult,
     polled |-> NoPoll,
     \* history of the current call, for stating the properties
     got |-> <<>>, rdfail |-> FALSE, writes |-> 0, trig |-> FALSE, stream |-> <<>>,
     openAtCall |-> FALSE, serAtCall |-> 0]

\* a link is open: ser is a handle and it has not been closed
LinkOpen == ser # 0 /\ handles[ser].open

\* the state of the server after construction
InitServer ==
    /\ ser = 0
    /\ handles = <<>>
    /\ rxbuf = <<>>
    /\ wire = <<>>
    /\ emitted = 0
    /\ serial_lock = Free
    /\ data_lock = Free
    /\ latest_raw_line = NoText
    /\ monitor_parsed = EmptyDict
    /\ monitor_active = FALSE
    /\ monitor_requested = FALSE
    /\ opener = [pc |-> "idle", baud |-> 0, calls |-> 0, attempts |-> <<>>, result |-> "none"]
    /\ reader = [pc |-> "off", h |-> 0, raw |-> NoText, line |-> NoText, failed |-> FALSE]
    /\ req = [t \in ReqThreads |-> IdleRequest]

Init ==
    /\ InitServer
    /\ fmt = NoCall

-----------------------------------------------------------------------------
(* The device: it sends a line, which the open port buffers *)

DeviceEmit(l) ==
    /\ emitted < MaxEmit
    /\ LinkOpen
    /\ emitted' = emitted + 1
    /\ rxbuf' = Append(rxbuf, l)
    /\ req' = [t \in ReqThreads |->
                 IF req[t].trig /\ req[t].pc # "done" /\ DecodeStrip(l) # NoText
                 THEN [req[t] EXCEPT !.stream = Append(@, DecodeStrip(l))]
                 ELSE req[t]]
    /\ UNCHANGED <<fmt, ser, handles, wire, serial_lock, data_lock, latest_raw_line,
                   monitor_parsed, monitor_active, monitor_requested, opener, reader>>

-----------------------------------------------------------------------------
(* open_serial, lines 42-69.  It takes no lock. *)

\* lines 44-52: close the current handle, resolve the port
OpenSerialCall(baud, found) ==
    /\ opener.pc = "idle"
    /\ opener.calls < MaxOpens
    /\ handles' = IF ser # 0 THEN [handles EXCEPT ![ser].open = FALSE] ELSE handles
    /\ opener' = IF found
                 THEN [opener EXCEPT !.pc = "primary", !.baud = baud, !.calls = @ + 1,
                                     !.attempts = <<>>, !.result = "none"]
                 ELSE [opener EXCEPT !.baud = baud, !.calls = @ + 1,
                                     !.attempts = <<>>, !.result = "ConnectionError"]
    /\ UNCHANGED <<fmt, ser, rxbuf, wire, emitted, serial_lock, data_lock, latest_raw_line,
                   monitor_parsed, monitor_active, monitor_requested, reader, req>>

\* serial.Serial(port, baud) succeeded: a new open handle, with an empty input buffer
Opened(baud) ==
    /\ handles' = Append(handles, [open |-> TRUE, baud |-> baud])
    /\ ser' = Len(handles) + 1
    /\ rxbuf' = <<>>

\* the fallback rate tried after a failed open at any rate
TriesFallbackAlways(baud) == TRUE

\* line 61: the fallback rate is tried only after a failed open at the default rate
TriesFallback(baud) == baud = DEFAULT_BAUD

\* lines 54-61
OpenSerialPrimary(ok) ==
    /\ opener.pc = "primary"
    /\ IF ok
       THEN /\ Opened(opener.baud)
            /\ opener' = [opener EXCEPT !.pc = "idle", !.result = "ok",
                                        !.attempts = Append(@, opener.baud)]
       ELSE /\ opener' = [opener EXCEPT
                            !.pc = IF TriesFallback(opener.baud) THEN "fallback" ELSE "idle",
                            !.result = IF TriesFallback(opener.baud) THEN "none"
                                       ELSE "ConnectionError",
                            !.attempts = Append(@, opener.baud)]
            /\ UNCHANGED <<ser, handles, rxbuf>>
    /\ UNCHANGED <<fmt, wire, emitted, serial_lock, data_lock, latest_raw_line,
                   monitor_parsed, monitor_active, monitor_requested, reader, req>>

\* lines 62-68
OpenSerialFallback(ok) ==
    /\ opener.pc = "fallback"
    /\ IF ok
       THEN /\ Opened(FALLBACK_BAUD)
            /\ opener' = [opener EXCEPT !.pc = "idle", !.result = "ok",
                                        !.attempts = Append(@, FALLBACK_BAUD)]
       ELSE /\ opener' = [opener EXCEPT !.pc = "idle", !.result = "ConnectionError",
                                        !.attempts = Append(@, FALLBACK_BAUD)]
            /\ UNCHANGED <<ser, handles, rxbuf>>
    /\ UNCHANGED <<fmt, wire, emitted, serial_lock, data_lock, latest_raw_line,
                   monitor_parsed, monitor_active, monitor_requested, reader, req>>

-----------------------------------------------------------------------------
(* monitor_reader_thread, lines 166-194 *)

\* start_monitor_thread, lines 274-277
StartMonitorThread ==
    /\ reader.pc = "off"
    /\ reader' = [reader EXCEPT !.pc = "top"]
    /\ UNCHANGED <<fmt, ser, handles, rxbuf, wire, emitted, serial_lock, data_lock,
                   latest_raw_line, monitor_parsed, monitor_active, monitor_requested,
                   opener, req>>

\* lines 169-174: ser is not None; take serial_lock and call ser.readline()
ReaderAcquire ==
    /\ reader.pc = "top"
    /\ ser # 0
    /\ serial_lock = Free
    /\ serial_lock' = "reader"
    /\ reader' = [reader EXCEPT !.pc = "reading", !.h = ser]
    /\ UNCHANGED <<fmt, ser, handles, rxbuf, wire, emitted, data_lock, latest_raw_line,
                   monitor_parsed, monitor_active, monitor_requested, opener, req>>

\* the thread ended by an exception
AfterErrorDead == "dead"

\* lines 192-194: the except clause is inside the while loop; after the message
\* and the sleep the loop starts its next iteration
AfterError == "top"

\* lines 174-176: readline returns a line, or nothing at the timeout, or raises
\* (a closed handle, an I/O error); the lock is released on every way out.
\* reader.failed tells that the last iteration to end ended in the except clause
ReaderReadline(fail) ==
    /\ reader.pc = "reading"
    /\ serial_lock' = Free
    /\ IF fail \/ ~handles[reader.h].open
       THEN /\ reader' = [reader EXCEPT !.pc = AfterError, !.raw = NoText, !.failed = TRUE]
            /\ UNCHANGED rxbuf
       ELSE IF rxbuf = <<>>
       THEN /\ reader' = [reader EXCEPT !.pc = "top", !.raw = NoText, !.failed = FALSE]
            /\ UNCHANGED rxbuf
       ELSE /\ reader' = [reader EXCEPT !.pc = "raw", !.raw = Head(rxbuf)]
            /\ rxbuf' = Tail(rxbuf)
    /\ UNCHANGED <<fmt, ser, handles, wire, emitted, data_lock, latest_raw_line,
                   monitor_parsed, monitor_active, monitor_requested, opener, req>>

\* the raw line kept only for a line with a field separator
ReaderRawLineGated ==
    /\ reader.pc = "raw"
    /\ LET line == DecodeStrip(reader.raw)
       IN IF line = NoText
          THEN /\ reader' = [reader EXCEPT !.pc = "top", !.raw = NoText, !.failed = FALSE]
               /\ UNCHANGED latest_raw_line
          ELSE /\ reader' = [reader EXCEPT !.pc = "data", !.raw = NoText, !.line = line]
               /\ latest_raw_line' = IF Contains(line, ",") THEN line ELSE latest_raw_line
    /\ UNCHANGED <<fmt, ser, handles, rxbuf, wire, emitted, serial_lock, data_lock,
                   monitor_parsed, monitor_active, monitor_requested, opener, req>>

\* lines 177-183: decode and strip; a non-empty line becomes latest_raw_line
ReaderRawLine ==
    /\ reader.pc = "raw"
    /\ LET line == DecodeStrip(reader.raw)
       IN IF line = NoText
          THEN /\ reader' = [reader EXCEPT !.pc = "top", !.raw = NoText, !.failed = FALSE]
               /\ UNCHANGED latest_raw_line
          ELSE /\ reader' = [reader EXCEPT !.pc = "data", !.raw = NoText, !.line = line]
               /\ latest_raw_line' = line
    /\ UNCHANGED <<fmt, ser, handles, rxbuf, wire, emitted, serial_lock, data_lock,
                   monitor_parsed, monitor_active, monitor_requested, opener, req>>

\* line 184: with data_lock
ReaderLockData ==
    /\ reader.pc = "data"
    /\ data_lock = Free
    /\ data_lock' = "reader"
    /\ reader' = [reader EXCEPT !.pc = "publish"]
    /\ UNCHANGED <<fmt, ser, handles, rxbuf, wire, emitted, serial_lock, latest_raw_line,
                   monitor_parsed, monitor_active, monitor_requested, opener, req>>

\* monitor_active set for every line with a comma, published or not
ReaderPublishFlagsAny ==
    /\ reader.pc = "publish"
    /\ LET parsed == parse_monitor_line(reader.line)
       IN /\ monitor_parsed' = IF Contains(reader.line, ",") /\ ValidObservation(parsed)
                               THEN parsed ELSE monitor_parsed
          /\ monitor_active' = (monitor_active \/ Contains(reader.line, ","))
    /\ data_lock' = Free
    /\ reader' = [reader EXCEPT !.pc = "top", !.failed = FALSE]
    /\ UNCHANGED <<fmt, ser, handles, rxbuf, wire, emitted, serial_lock, latest_raw_line,
                   monitor_requested, opener, req>>

\* lines 185-191: publish the parse of a line with a comma if it is a valid observation
ReaderPublish ==
    /\ reader.pc = "publish"
    /\ LET parsed == parse_monitor_line(reader.line)
       IN IF Contains(reader.line, ",") /\ ValidObservation(parsed)
          THEN /\ monitor_parsed' = parsed
               /\ monitor_active' = TRUE
          ELSE UNCHANGED <<monitor_parsed, monitor_active>>
    /\ data_lock' = Free
    /\ reader' = [reader EXCEPT !.pc = "top", !.failed = FALSE]
    /\ UNCHANGED <<fmt, ser, handles, rxbuf, wire, emitted, serial_lock, latest_raw_line,
                   monitor_requested, opener, req>>

-----------------------------------------------------------------------------
(* send_serial_raw, lines 71-105, as run by a request thread *)

\* a newline appended whether or not the command ends with one
CmdOutAlways(cmd) == cmd \o <<"\n">>

\* lines 81-84
CmdOut(cmd) == IF ~EndsWith(cmd, "\n") THEN cmd \o <<"\n">> ELSE cmd

\* the stripped line appended without the test of line 99
CollectLineUnfiltered(lines, raw) == Append(lines, DecodeStrip(raw))

\* lines 95-100: the stripped line is appended when it is not empty
CollectLine(lines, raw) ==
    IF DecodeStrip(raw) # NoText THEN Append(lines, DecodeStrip(raw)) ELSE lines

\* lines 99-102: the count is tested only after a line has been appended
StopCollecting(lines, raw, wait_lines) ==
    DecodeStrip(raw) # NoText /\ Len(CollectLine(lines, raw)) >= wait_lines

\* send_serial_raw returned `lines` to its caller: api_command and the other
\* one-command handlers answer with them, api_screenshot (line 254) goes on to
\* its accumulation loop, api_start_monitor and api_stop_monitor (lines 216, 226)
\* to the assignment of monitor_requested
Returned(r, lines) ==
    IF r.op = "screenshot"
    THEN [r EXCEPT !.pc = "acc", !.lines = lines, !.hex_chunks = <<>>, !.iters = 0]
    ELSE IF r.op \in {"start_monitor", "stop_monitor"}
    THEN [r EXCEPT !.pc = "flag", !.lines = lines]
    ELSE [r EXCEPT !.pc = "done", !.lines = lines,
                   !.result = [status |-> "ok", lines |-> lines, hex |-> NoText]]

\* an exception left send_serial_raw or the handler's loop: every handler catches
\* it and answers ok = False with the error
Raised(r, exc) ==
    [r EXCEPT !.pc = "done", !.result = [status |-> exc, lines |-> <<>>, hex |-> NoText]]

\* a call of send_serial_raw(cmd, wait_lines) starts: line 77
StartSend(r, op, cmd, wait_lines) ==
    LET c == [r EXCEPT !.op = op, !.cmd = cmd, !.wait_lines = wait_lines, !.lines = <<>>,
                       !.h = 0, !.iters = 0, !.hex_chunks = <<>>, !.calls = @ + 1,
                       !.result = NoResult, !.got = <<>>, !.rdfail = FALSE, !.writes = 0,
                       !.trig = FALSE, !.stream = <<>>,
                       !.openAtCall = LinkOpen, !.serAtCall = ser]
    IN IF ser = 0 THEN Raised(c, "LinkError") ELSE [c EXCEPT !.pc = "lock"]

CanCall(t) == req[t].pc \in {"idle", "done"} /\ req[t].calls < MaxCalls

\* a call of send_serial_raw(cmd, wait_lines), as api_command (line 206) and the
\* one-command handlers make it
CallCommand(t, cmd, wait_lines) ==
    /\ CanCall(t)
    /\ req' = [req EXCEPT ![t] = StartSend(req[t], "command", cmd, wait_lines)]
    /\ UNCHANGED <<fmt, ser, handles, rxbuf, wire, emitted, serial_lock, data_lock,
                   latest_raw_line, monitor_parsed, monitor_active, monitor_requested,
                   opener, reader>>

\* api_screenshot, line 253: send_serial_raw("C", wait_lines=1, read_timeout=0.05)
CallScreenshot(t) ==
    /\ CanCall(t)
    /\ req' = [req EXCEPT ![t] = StartSend(req[t], "screenshot", <<"C">>, 1)]
    /\ UNCHANGED <<fmt, ser, handles, rxbuf, wire, emitted, serial_lock, data_lock,
                   latest_raw_line, monitor_parsed, monitor_active, monitor_requested,
                   opener, reader>>

\* lines 79-80: take serial_lock and discard the stale input; on a closed handle
\* reset_input_buffer raises and the with block releases the lock
SendAcquire(t) ==
    /\ req[t].pc = "lock"
    /\ serial_lock = Free
    /\ IF handles[ser].open
       THEN /\ serial_lock' = t
            /\ rxbuf' = <<>>
            /\ req' = [req EXCEPT ![t].pc = "write"]
       ELSE /\ req' = [req EXCEPT ![t] = Raised(req[t], "SerialException")]
            /\ UNCHANGED <<serial_lock, rxbuf>>
    /\ UNCHANGED <<fmt, ser, handles, wire, emitted, data_lock, latest_raw_line,
                   monitor_parsed, monitor_active, monitor_requested, opener, reader>>

\* serial_lock still held after a failed write
SendWriteKeepsLock(t, fail) ==
    /\ req[t].pc = "write"
    /\ IF fail \/ ~handles[ser].open
       THEN /\ req' = [req EXCEPT ![t] = Raised(req[t], "SerialException")]
            /\ UNCHANGED <<wire, serial_lock>>
       ELSE /\ wire' = Append(wire, [by |-> t, cmd |-> req[t].cmd, data |-> CmdOut(req[t].cmd)])
            /\ req' = [req EXCEPT ![t].pc = "loop", ![t].writes = @ + 1,
                                  ![t].trig = (req[t].op = "screenshot")]
            /\ UNCHANGED serial_lock
    /\ UNCHANGED <<fmt, ser, handles, rxbuf, emitted, data_lock, latest_raw_line,
                   monitor_parsed, monitor_active, monitor_requested, opener, reader>>

\* lines 81-86: write the command and flush; a failed write leaves the with block
SendWrite(t, fail) ==
    /\ req[t].pc = "write"
    /\ IF fail \/ ~handles[ser].open
       THEN /\ serial_lock' = Free
            /\ req' = [req EXCEPT ![t] = Raised(req[t], "SerialException")]
            /\ UNCHANGED wire
       ELSE /\ wire' = Append(wire, [by |-> t, cmd |-> req[t].cmd, data |-> CmdOut(req[t].cmd)])
            /\ req' = [req EXCEPT ![t].pc = "loop", ![t].writes = @ + 1,
                                  ![t].trig = (req[t].op = "screenshot")]
            /\ UNCHANGED serial_lock
    /\ UNCHANGED <<fmt, ser, handles, rxbuf, emitted, data_lock, latest_raw_line,
                   monitor_parsed, monitor_active, monitor_requested, opener, reader>>

\* line 89, the deadline has passed: return lines (line 105), releasing the lock
SendTimeout(t) ==
    /\ req[t].pc = "loop"
    /\ serial_lock' = Free
    /\ req' = [req EXCEPT ![t] = Returned(req[t], req[t].lines)]
    /\ UNCHANGED <<fmt, ser, handles, rxbuf, wire, emitted, data_lock, latest_raw_line,
                   monitor_parsed, monitor_active, monitor_requested, opener, reader>>

\* lines 89-91, the deadline has not passed: call ser.readline()
SendRead(t) ==
    /\ req[t].pc = "loop"
    /\ req[t].iters < MaxIter
    /\ req' = [req EXCEPT ![t].pc = "rdline", ![t].h = ser, ![t].iters = @ + 1]
    /\ UNCHANGED <<fmt, ser, handles, rxbuf, wire, emitted, serial_lock, data_lock,
                   latest_raw_line, monitor_parsed, monitor_active, monitor_requested,
                   opener, reader>>

\* lines 91-104: readline raised (break), returned nothing (sleep, continue), or
\* returned a line
SendReadline(t, fail) ==
    /\ req[t].pc = "rdline"
    /\ IF fail \/ ~handles[req[t].h].open
       THEN /\ serial_lock' = Free
            /\ req' = [req EXCEPT ![t] = Returned([req[t] EXCEPT !.rdfail = TRUE], req[t].lines)]
            /\ UNCHANGED rxbuf
       ELSE IF rxbuf = <<>>
       THEN /\ req' = [req EXCEPT ![t].pc = "loop"]
            /\ UNCHANGED <<serial_lock, rxbuf>>
       ELSE LET raw == Head(rxbuf)
                r == [req[t] EXCEPT !.got = Append(@, raw),
                                    !.lines = CollectLine(req[t].lines, raw)]
            IN /\ rxbuf' = Tail(rxbuf)
               /\ IF StopCollecting(req[t].lines, raw, req[t].wait_lines)
                  THEN /\ serial_lock' = Free
                       /\ req' = [req EXCEPT ![t] = Returned(r, r.lines)]
                  ELSE /\ req' = [req EXCEPT ![t] = [r EXCEPT !.pc = "loop"]]
                       /\ UNCHANGED serial_lock
    /\ UNCHANGED <<fmt, ser, handles, wire, emitted, data_lock, latest_raw_line,
                   monitor_parsed, monitor_active, monitor_requested, opener, reader>>

-----------------------------------------------------------------------------
(* api_screenshot's accumulation loop, lines 254-272: it holds no lock *)

\* "".join(hex_chunks) is longer than the cap, line 268
OverCap(chunks) == Len(Join(chunks, "")) > HEX_CAP

\* line 270
ScreenshotDone(r) ==
    [r EXCEPT !.pc = "done",
              !.result = [status |-> "ok", lines |-> <<>>, hex |-> Join(r.hex_chunks, "\n")]]

\* line 256, the 5 s have passed: answer ok with the joined chunks
ShotTimeout(t) ==
    /\ req[t].pc = "acc"
    /\ req' = [req EXCEPT ![t] = ScreenshotDone(req[t])]
    /\ UNCHANGED <<fmt, ser, handles, rxbuf, wire, emitted, serial_lock, data_lock,
                   latest_raw_line, monitor_parsed, monitor_active, monitor_requested,
                   opener, reader>>

\* lines 256-257: call ser.readline()
ShotRead(t) ==
    /\ req[t].pc = "acc"
    /\ req[t].iters < MaxIter
    /\ req' = [req EXCEPT ![t].pc = "accrd", ![t].h = ser, ![t].iters = @ + 1]
    /\ UNCHANGED <<fmt, ser, handles, rxbuf, wire, emitted, serial_lock, data_lock,
                   latest_raw_line, monitor_parsed, monitor_active, monitor_requested,
                   opener, reader>>

\* lines 257-269: readline raised (the handler answers with the error), returned
\* nothing, or returned a line, which is appended when it is not blank
ShotReadline(t, fail) ==
    /\ req[t].pc = "accrd"
    /\ IF fail \/ ~handles[req[t].h].open
       THEN /\ req' = [req EXCEPT ![t] = Raised(req[t], "SerialException")]
            /\ UNCHANGED rxbuf
       ELSE IF rxbuf = <<>>
       THEN /\ req' = [req EXCEPT ![t].pc = "acc"]
            /\ UNCHANGED rxbuf
       ELSE LET line == DecodeStrip(Head(rxbuf))
                chunks == IF line # NoText THEN Append(req[t].hex_chunks, line)
                          ELSE req[t].hex_chunks
                r == [req[t] EXCEPT !.hex_chunks = chunks]
            IN /\ rxbuf' = Tail(rxbuf)
               /\ req' = [req EXCEPT ![t] = IF line # NoText /\ OverCap(chunks)
                                            THEN ScreenshotDone(r)
                                            ELSE [r EXCEPT !.pc = "acc"]]
    /\ UNCHANGED <<fmt, ser, handles, wire, emitted, serial_lock, data_lock, latest_raw_line,
                   monitor_parsed, monitor_active, monitor_requested, opener, reader>>

-----------------------------------------------------------------------------
(* api_start_monitor and api_stop_monitor, lines 211-229 *)

\* the flag set whichever handler ran
RequestedAlways(op) == TRUE

\* the value the handler assigns: True in api_start_monitor, False in api_stop_monitor
RequestedAfter(op) == op = "start_monitor"

\* lines 215, 225: send_serial_raw("t", wait_lines=1, read_timeout=0.1)
CallToggle(t, on) ==
    /\ CanCall(t)
    /\ req' = [req EXCEPT ![t] = StartSend(req[t], IF on THEN "start_monitor"
                                                   ELSE "stop_monitor", <<"t">>, 1)]
    /\ UNCHANGED <<fmt, ser, handles, rxbuf, wire, emitted, serial_lock, data_lock,
                   latest_raw_line, monitor_parsed, monitor_active, monitor_requested,
                   opener, reader>>

\* lines 216-217, 226-227: send_serial_raw returned; assign monitor_requested, answer ok
ToggleSetFlag(t) ==
    /\ req[t].pc = "flag"
    /\ monitor_requested' = RequestedAfter(req[t].op)
    /\ req' = [req EXCEPT ![t].pc = "done",
                          ![t].result = [status |-> "ok", lines |-> <<>>, hex |-> NoText]]
    /\ UNCHANGED <<fmt, ser, handles, rxbuf, wire, emitted, serial_lock, data_lock,
                   latest_raw_line, monitor_parsed, monitor_active, opener, reader>>

-----------------------------------------------------------------------------
(* api_monitor, lines 231-240 *)

\* the request arrives; the handler is about to take data_lock
CallMonitor(t) ==
    /\ CanCall(t)
    /\ req' = [req EXCEPT ![t].op = "monitor", ![t].pc = "dlock", ![t].calls = @ + 1,
                          ![t].result = NoResult, ![t].polled = NoPoll]
    /\ UNCHANGED <<fmt, ser, handles, rxbuf, wire, emitted, serial_lock, data_lock,
                   latest_raw_line, monitor_parsed, monitor_active, monitor_requested,
                   opener, reader>>

\* line 233: with data_lock
MonitorLock(t) ==
    /\ req[t].pc = "dlock"
    /\ data_lock = Free
    /\ data_lock' = t
    /\ req' = [req EXCEPT ![t].pc = "poll"]
    /\ UNCHANGED <<fmt, ser, handles, rxbuf, wire, emitted, serial_lock, latest_raw_line,
                   monitor_parsed, monitor_active, monitor_requested, opener, reader>>

\* lines 234-240: read the four globals, leave the with block, answer
MonitorRead(t) ==
    /\ req[t].pc = "poll"
    /\ data_lock' = Free
    /\ req' = [req EXCEPT ![t].pc = "done",
                          ![t].result = [status |-> "ok", lines |-> <<>>, hex |-> NoText],
                          ![t].polled = [parsed |-> monitor_parsed,
                                         raw |-> latest_raw_line,
                                         monitor_active |-> monitor_active,
                                         monitor_requested |-> monitor_requested]]
    /\ UNCHANGED <<fmt, ser, handles, rxbuf, wire, emitted, serial_lock, latest_raw_line,
                   monitor_parsed, monitor_active, monitor_requested, opener, reader>>

-----------------------------------------------------------------------------
(* format_frequency, lines 107-128, called on its own *)

\* the call returns
FormatFrequency ==
    /\ ~fmt.returned
    /\ fmt' = [fmt EXCEPT !.returned = TRUE,
                          !.out = format_frequency(fmt.freq_khz, fmt.bfo_hz, fmt.mode)]
    /\ UNCHANGED <<ser, handles, rxbuf, wire, emitted, serial_lock, data_lock,
                   latest_raw_line, monitor_parsed, monitor_active, monitor_requested,
                   opener, reader, req>>

-----------------------------------------------------------------------------
(* Inputs *)

HelloLine == <<"4", "8", "6", "5", "6", "C", "6", "C", "6", "F", "\n">>
OddLine == <<"4", "8", "6", "\n">>
NonHexLine == <<"4", "G", "\n">>
BlankLine == <<"\r", "\n">>
OkLine == <<"O", "K", "\r", "\n">>
\* telemetry: fw,freq,bfo
GoodLine == <<"1", ",", "7", "2", ",", "0", "\n">>
NoFwLine == <<",", "7", "2", "\n">>
ZeroLine == <<",", "0", "\n">>
BlankFreqLine == <<",", " ", ",", "5", "\n">>
OnlyCommaLine == <<",", "\n">>
BadFreqLine == <<",", "x", "\n">>
NoCommaLine == <<"x", "\n">>
FwBadFreqLine == <<"1", ",", "x", "\n">>

ConcLines == {HelloLine}
ShotLines == {HelloLine, OddLine, NonHexLine, BlankLine}
CmdLines == {OkLine, BlankLine}
ApiLines == {GoodLine, ZeroLine}
TeleLines == {GoodLine, NoFwLine, ZeroLine, BlankFreqLine, OnlyCommaLine, BadFreqLine,
              NoCommaLine, FwBadFreqLine, BlankLine}

FmtKhz == {-1, 0, 530, AM_KHZ_LIMIT - 1, AM_KHZ_LIMIT, 7200, 88105, 88125, 107900}
FmtBfo == {-500, 0, 1}
FmtModes == {<<"U", "S", "B">>, <<"u", "s", "b">>, <<"L", "s", "b">>, <<"S", "S", "B">>,
             <<"F", "M">>, <<"f", "m">>, <<"A", "M">>, <<"a", "M">>, <<"C", "W">>, NoText}

Cmds == {<<"x">>, <<"x", "\n">>, <<"x", "\n", "\n">>}
Bauds == {DEFAULT_BAUD, OTHER_BAUD}

-----------------------------------------------------------------------------
(* Specifications *)

OpenSerial ==
    \/ \E b \in Bauds, found \in BOOLEAN : OpenSerialCall(b, found)
    \/ \E ok \in BOOLEAN : OpenSerialPrimary(ok)
    \/ \E ok \in BOOLEAN : OpenSerialFallback(ok)

Reader ==
    \/ StartMonitorThread
    \/ ReaderAcquire
    \/ \E fail \in BOOLEAN : ReaderReadline(fail)
    \/ ReaderRawLine
    \/ ReaderLockData
    \/ ReaderPublish

Send(t) ==
    \/ SendAcquire(t)
    \/ \E fail \in BOOLEAN : SendWrite(t, fail)
    \/ SendTimeout(t)
    \/ SendRead(t)
    \/ \E fail \in BOOLEAN : SendReadline(t, fail)

Shot(t) ==
    \/ ShotTimeout(t)
    \/ ShotRead(t)
    \/ \E fail \in BOOLEAN : ShotReadline(t, fail)

\* the whole backend: the reader thread, a request thread serving a command and one
\* serving a screenshot, reconnects at a fixed baud rate
Next ==
    \/ \E found \in BOOLEAN : OpenSerialCall(OTHER_BAUD, found)
    \/ \E ok \in BOOLEAN : OpenSerialPrimary(ok)
    \/ Reader
    \/ \E l \in ConcLines : DeviceEmit(l)
    \/ CallCommand("r1", <<"t">>, 1)
    \/ CallScreenshot("r2")
    \/ \E t \in ReqThreads : Send(t)
    \/ Shot("r2")

Spec == Init /\ [][Next]_vars

\* the command channel alone: one request thread, every command and wait_lines,
\* reconnects at a fixed baud rate
NextCmd ==
    \/ \E found \in BOOLEAN : OpenSerialCall(OTHER_BAUD, found)
    \/ \E ok \in BOOLEAN : OpenSerialPrimary(ok)
    \/ \E l \in CmdLines : DeviceEmit(l)
    \/ \E cmd \in Cmds, n \in 0..MaxWait : CallCommand("r1", cmd, n)
    \/ Send("r1")

SpecCmd == Init /\ [][NextCmd]_vars

\* screenshot capture alone: one request thread, well-formed and malformed streams
NextShot ==
    \/ OpenSerial
    \/ \E l \in ShotLines : DeviceEmit(l)
    \/ CallScreenshot("r1")
    \/ Send("r1")
    \/ Shot("r1")

SpecShot == Init /\ [][NextShot]_vars

\* the telemetry reader alone, on every kind of telemetry line
NextMon ==
    \/ OpenSerial
    \/ Reader
    \/ \E l \in TeleLines : DeviceEmit(l)

SpecMon == Init /\ [][NextMon]_vars

\* the published state and its users: the reader thread, a request thread serving
\* monitor toggles, one serving telemetry polls, reconnects at a fixed baud rate
NextApi ==
    \/ \E found \in BOOLEAN : OpenSerialCall(OTHER_BAUD, found)
    \/ \E ok \in BOOLEAN : OpenSerialPrimary(ok)
    \/ Reader
    \/ \E l \in ApiLines : DeviceEmit(l)
    \/ \E on \in BOOLEAN : CallToggle("r1", on)
    \/ Send("r1")
    \/ ToggleSetFlag("r1")
    \/ CallMonitor("r2")
    \/ MonitorLock("r2")
    \/ MonitorRead("r2")

SpecApi == Init /\ [][NextApi]_vars

\* format_frequency on its own: any of the arguments, then the call
InitFmt ==
    /\ InitServer
    /\ fmt \in [freq_khz : FmtKhz, bfo_hz : FmtBfo, mode : FmtModes,
                returned : {FALSE}, out : {NoFrequency}]

NextFmt == FormatFrequency

SpecFmt == InitFmt /\ [][NextFmt]_vars

\* the reader thread and one command on a link opened at a fixed baud rate, with
\* the scheduling the interpreter gives: a thread that stays able to run does run.
\* threading.Lock has no queue, so a thread waiting in acquire is able to run
\* only while the lock is free
NextLive ==
    \/ \E found \in BOOLEAN : OpenSerialCall(OTHER_BAUD, found)
    \/ \E ok \in BOOLEAN : OpenSerialPrimary(ok)
    \/ Reader
    \/ DeviceEmit(GoodLine)
    \/ CallCommand("r1", <<"t">>, 1)
    \/ Send("r1")

SpecLive == Init /\ [][NextLive]_vars /\ WF_vars(Reader) /\ WF_vars(Send("r1"))

-----------------------------------------------------------------------------
(* Properties *)

Threads == {"reader"} \cup ReqThreads

\* the thread is inside a readline call on the handle
InsideRead(th) ==
    IF th = "reader" THEN reader.pc = "reading" ELSE req[th].pc \in {"rdline", "accrd"}

\* the handle the thread's readline call is reading
ReadHandle(th) == IF th = "reader" THEN reader.h ELSE req[th].h

\* the request thread is between its reset_input_buffer and the return of
\* send_serial_raw
InSequence(t) == req[t].pc \in {"write", "loop", "rdline"}

\* C1: no two of the reader loop, a command and the screenshot loop are inside a
\* read of the device handle at the same time.
C1_ExclusiveLinkAccess ==
    \A a, b \in Threads : InsideRead(a) /\ InsideRead(b) => a = b

\* C2: while a command is between its input-buffer reset and its last readline, no
\* other thread is inside a read of the wire.
C2_CommandSequenceAtomic ==
    \A t \in ReqThreads : InSequence(t) => \A u \in Threads \ {t} : ~InsideRead(u)

\* a read or a command sequence is in flight on handle h
InFlight(h) ==
    \/ \E th \in Threads : InsideRead(th) /\ ReadHandle(th) = h
    \/ \E t \in ReqThreads : InSequence(t) /\ ser = h

\* C3: open_serial never closes the handle while a reader-loop readline or a
\* command's write/read sequence on it is in flight.
C3_NoCloseInFlight ==
    [][\A h \in DOMAIN handles : handles[h].open /\ ~handles'[h].open => ~InFlight(h)]_vars

HelloBytes == <<72, 101, 108, 108, 111>>

\* C4: a capture on one link, during which the device sent the single line
\* 48656C6C6F after the trigger was written and the line was read off the wire,
\* answers with content that decodes to the 5 bytes of Hello.
C4_CaptureReturnsStream ==
    \A t \in ReqThreads :
        ( /\ req[t].op = "screenshot"
          /\ req[t].pc = "done"
          /\ req[t].result.status = "ok"
          /\ req[t].serAtCall = ser
          /\ req[t].stream = <<DecodeStrip(HelloLine)>>
          /\ rxbuf = <<>> )
        => /\ ~HexMalformed(HexClean(req[t].result.hex))
           /\ Unhexlify(HexClean(req[t].result.hex)) = HelloBytes

\* C5: a capture whose accumulated stream, line terminators stripped, has odd
\* length or a non-hex character ends in ProtocolError and carries no content.
C5_MalformedIsProtocolError ==
    \A t \in ReqThreads :
        ( /\ req[t].op = "screenshot"
          /\ req[t].pc = "done"
          /\ req[t].result.status \notin {"LinkError", "SerialException"}
          /\ HexMalformed(HexClean(Join(req[t].hex_chunks, "\n"))) )
        => /\ req[t].result.status = "ProtocolError"
           /\ req[t].result.hex = NoText

\* the stripped, non-empty ones of the raw lines, in order
NonEmptyLines(raws) ==
    SelectSeq([i \in 1..Len(raws) |-> DecodeStrip(raws[i])], LAMBDA l : l # NoText)

C7_AtMostExpectedLines ==
    \A t \in ReqThreads :
        (req[t].op = "command" /\ req[t].pc = "done" /\ req[t].result.status = "ok")
        => Len(req[t].result.lines) <= req[t].wait_lines

\* C8: a send_serial_raw call made while no link is open, and during which none is
\* opened, fails with LinkError, writes nothing and does not keep serial_lock.
C8_NoLinkIsLinkError ==
    \A t \in ReqThreads :
        ( /\ req[t].op = "command"
          /\ req[t].pc = "done"
          /\ ~req[t].openAtCall
          /\ req[t].serAtCall = ser )
        => /\ req[t].result.status = "LinkError"
           /\ req[t].writes = 0
           /\ serial_lock # t

\* how many line terminators end the text
RECURSIVE TrailingNL(_)
TrailingNL(s) == IF EndsWith(s, "\n") THEN 1 + TrailingNL(SubSeq(s, 1, Len(s) - 1)) ELSE 0

\* the text without its trailing line terminators
Body(s) == SubSeq(s, 1, Len(s) - TrailingNL(s))

\* each call writes at most once, and exactly once when it returns lines
WrittenOnce ==
    \A t \in ReqThreads :
        /\ req[t].writes <= 1
        /\ req[t].pc = "done" /\ req[t].result.status = "ok" => req[t].writes = 1

\* C9 as stated: every write ends with exactly one line terminator, and a call
\* writes once.
C9_ExactlyOneTerminator ==
    /\ \A i \in DOMAIN wire : TrailingNL(wire[i].data) = 1
    /\ WrittenOnce

\* C9 as amended: the bytes written are the command, followed by one line
\* terminator when it ends with none; a command with k >= 1 trailing terminators
\* is written with those k; a call writes once.
C9_TerminatorAppendedIfMissing ==
    /\ \A i \in DOMAIN wire :
          /\ Body(wire[i].data) = Body(wire[i].cmd)
          /\ TrailingNL(wire[i].data) =
                IF TrailingNL(wire[i].cmd) = 0 THEN 1 ELSE TrailingNL(wire[i].cmd)
    /\ WrittenOnce

\* a command without a terminator was written with one, and the call returned
C9_Witness ==
    \E t \in ReqThreads :
        /\ req[t].op = "command" /\ req[t].pc = "done" /\ req[t].result.status = "ok"
        /\ req[t].cmd = <<"x">>
        /\ \E i \in DOMAIN wire : wire[i].by = t /\ wire[i].data = <<"x", "\n">>

\* the line's firmware-version field is empty and its frequency field is blank,
\* missing or an integer equal to 0
EmptyFwZeroFreq(line) ==
    LET fields == Split(line, ",")
        freq == IF Len(fields) >= 2 THEN Strip(fields[2]) ELSE NoText
    IN /\ Strip(fields[1]) = NoText
       /\ freq = NoText \/ (IsInt(freq) /\ IntVal(freq) = 0)

\* C10: the reader's handling of a line with an empty firmware version and raw
\* frequency 0 leaves the published snapshot and the ever-observed flag as they were.
C10_DiscardKeepsSnapshot ==
    [][(reader.pc = "publish" /\ EmptyFwZeroFreq(reader.line))
        => (monitor_parsed' = monitor_parsed /\ monitor_active' = monitor_active)]_vars

\* such a line has been handled after a snapshot had been published
C10_Witness ==
    /\ reader.pc = "top"
    /\ data_lock = Free
    /\ Contains(latest_raw_line, ",")
    /\ EmptyFwZeroFreq(latest_raw_line)
    /\ monitor_active
    /\ monitor_parsed = parse_monitor_line(DecodeStrip(GoodLine))

\* C11: a finished open_serial call at a non-default rate made at most one open
\* attempt, at that rate (exactly one once the port was resolved); a call at the
\* default rate tried the default rate and, only after its failure, the fallback
\* rate; a call that ended ok left an open handle at the rate of its last attempt
\* (the fallback rate after a failed first attempt); a call whose attempts all
\* failed ended in a connection error with no link open.
C11_BaudFallback ==
    (opener.pc = "idle" /\ opener.result # "none") =>
        LET a == opener.attempts
        IN /\ opener.result \in {"ok", "ConnectionError"}
           /\ opener.baud # DEFAULT_BAUD =>
                 a = <<opener.baud>> \/ (a = <<>> /\ opener.result = "ConnectionError")
           /\ opener.baud = DEFAULT_BAUD =>
                 \/ a = <<DEFAULT_BAUD>> /\ opener.result = "ok"
                 \/ a = <<DEFAULT_BAUD, FALLBACK_BAUD>>
                 \/ a = <<>> /\ opener.result = "ConnectionError"
           /\ opener.result = "ok" =>
                 /\ ser = Len(handles)
                 /\ handles[ser].open
                 /\ handles[ser].baud = a[Len(a)]
           /\ opener.result = "ConnectionError" => ~LinkOpen

\* the default rate failed, the fallback rate opened
C11_Witness ==
    /\ opener.pc = "idle"
    /\ opener.result = "ok"
    /\ opener.attempts = <<DEFAULT_BAUD, FALLBACK_BAUD>>
    /\ LinkOpen
    /\ handles[ser].baud = FALLBACK_BAUD

-----------------------------------------------------------------------------
(* C12 *)

\* C12: a command that waits for serial_lock on an open link eventually gets
\* past the acquire, whatever the reader loop does
C12_NoStarvation ==
    \A t \in ReqThreads : (req[t].pc = "lock" /\ LinkOpen) ~> (req[t].pc # "lock")

-----------------------------------------------------------------------------
(* C13 *)

\* a telemetry poll is inside its with data_lock block
Polling == \E t \in ReqThreads : req[t].pc = "poll"

\* C13: while a telemetry poll holds data_lock, neither the raw line nor the
\* published snapshot changes (every write to them is made by a holder of
\* data_lock, which the poll excludes)
C13_WritesUnderDataLock ==
    [][Polling => /\ latest_raw_line' = latest_raw_line
                  /\ monitor_parsed' = monitor_parsed]_vars

-----------------------------------------------------------------------------
(* C14 *)

ToggleOps == {"start_monitor", "stop_monitor"}

\* the step in which a toggle handler, its send_serial_raw having returned,
\* assigns the flag and answers ok
ToggleSucceeds(t) ==
    /\ req[t].op \in ToggleOps
    /\ req[t].pc = "flag"
    /\ req'[t].pc = "done"

-----------------------------------------------------------------------------
(* C15 *)

\* the line the reader is about to publish is a valid observation
AboutToPublish ==
    /\ reader.pc = "publish"
    /\ Contains(reader.line, ",")
    /\ ValidObservation(parse_monitor_line(reader.line))

\* C15: the reader holds serial_lock only inside readline, so a failed iteration
\* has released it; once a link has been opened the loop makes readline
\* attempts again and again, and each of them returns, whatever failed before;
\* and a valid line read after a failed iteration is published
C15_ReaderNeverTerminates ==
    /\ [](serial_lock = "reader" <=> reader.pc = "reading")
    /\ []<>(ser = 0 \/ reader.pc = "reading")
    /\ []<>(reader.pc # "reading")
    /\ [][(reader.failed /\ AboutToPublish /\ reader'.pc # "publish") =>
              /\ monitor_parsed' = parse_monitor_line(reader.line)
              /\ monitor_active']_vars

\* a valid line read in the iteration after a failed one is being published
C15_Witness == reader.failed /\ AboutToPublish

-----------------------------------------------------------------------------
(* C16 *)

\* the fields of a line, stripped
Fields(line) == LET split == Split(line, ",") IN [i \in 1..Len(split) |-> Strip(split[i])]

\* the valid-observation rule on the text of a line: a firmware version, or a
\* frequency that was extracted and is not 0
PassesRule(line) ==
    LET p == Fields(line)
    IN \/ p[1] # NoText
       \/ /\ Len(p) > 1 /\ IsInt(p[2]) /\ IntVal(p[2]) # 0
          /\ Len(p) > 2 /\ p[3] # NoText => IsInt(p[3])

\* the reader leaves the step at which it stands
ReaderLeaves(pc) == reader.pc = pc /\ reader'.pc # pc

\* C16: a line that is not empty once stripped becomes latest_raw_line, with or
\* without a comma, valid observation or not; monitor_parsed changes only to the
\* parse of a line with a comma whose parse passes the rule, and then it does
C16_RawLineAndSnapshotRule ==
    [][/\ ReaderLeaves("raw") =>
            /\ IF Strip(reader.raw) # NoText
               THEN latest_raw_line' = Strip(reader.raw) /\ reader'.line = Strip(reader.raw)
               ELSE latest_raw_line' = latest_raw_line /\ reader'.pc = "top"
            /\ monitor_parsed' = monitor_parsed
       /\ ReaderLeaves("publish") =>
            /\ reader.line = latest_raw_line
            /\ IF Contains(reader.line, ",") /\ PassesRule(reader.line)
               THEN monitor_parsed' = parse_monitor_line(reader.line)
               ELSE monitor_parsed' = monitor_parsed
       /\ latest_raw_line' # latest_raw_line => ReaderLeaves("raw")
       /\ monitor_parsed' # monitor_parsed => ReaderLeaves("publish")]_vars

\* a line without a comma is the raw line while the snapshot is an earlier line's
C16_Witness ==
    /\ latest_raw_line = Strip(NoCommaLine)
    /\ reader.pc = "top"
    /\ monitor_parsed = parse_monitor_line(Strip(GoodLine))

-----------------------------------------------------------------------------
(* C17 *)

\* every field extracted after the numeric positions is in the snapshot
FullyExtracted(d) ==
    /\ d.tuningCapacitor # Missing
    /\ d.voltage # Missing
    /\ d.seqnum # Missing
    /\ d.frequency # NoFrequency
    /\ d.rssi # Missing
    /\ d.snr # Missing

\* C17: the published snapshot is never one from which the fields after a
\* non-numeric value are missing: it is empty or fully extracted
C17_NoTruncatedSnapshot == monitor_parsed = EmptyDict \/ FullyExtracted(monitor_parsed)

-----------------------------------------------------------------------------
(* C18 *)

SsbModes == {<<"U", "S", "B">>, <<"L", "S", "B">>, <<"S", "S", "B">>}

\* the result is n thousandths, hundredths, ... of the unit, printed with dec decimals
Shows(out, n, dec, unit) == out.num = n /\ out.dec = dec /\ out.unit = unit

\* C18: the result of format_frequency follows the rule of the mode, read without
\* regard to case: Hz with the BFO added as MHz with 6 decimals in USB, LSB and
\* SSB; kHz as MHz rounded to 2 decimals in FM; whole kHz below 1000 kHz and MHz
\* with 3 decimals from 1000 kHz in AM; MHz with 3 decimals in any other mode;
\* and outside USB, LSB and SSB the BFO makes no difference
C18_FormatRule ==
    fmt.returned =>
        LET k == fmt.freq_khz
            b == fmt.bfo_hz
            m == Upper(fmt.mode)
            out == fmt.out
        IN /\ m \in SsbModes => Shows(out, k * 1000 + b, 6, "MHz")
           /\ m = <<"F", "M">> =>
                /\ out.dec = 2 /\ out.unit = "MHz"
                /\ 10 * out.num - k \in -5..5
                /\ ~out.inexact => 10 * out.num - k \in -5..4 \/ out.num % 2 = 0
           /\ m = <<"A", "M">> /\ k < 1000 => Shows(out, k, 0, "kHz")
           /\ m = <<"A", "M">> /\ k >= 1000 => Shows(out, k, 3, "MHz")
           /\ m \notin SsbModes \cup {<<"F", "M">>, <<"A", "M">>} => Shows(out, k, 3, "MHz")
           /\ m \notin SsbModes => out = format_frequency(k, 0, fmt.mode)
           /\ (k = 7200 /\ b = 0 /\ m = <<"U", "S", "B">>) => Shows(out, 7200000, 6, "MHz")

\* 7200 kHz, BFO 0, USB has been formatted as 7.200000 MHz
C18_Witness ==
    /\ fmt.returned
    /\ fmt.freq_khz = 7200 /\ fmt.bfo_hz = 0 /\ fmt.mode = <<"U", "S", "B">>
    /\ Shows(fmt.out, 7200000, 6, "MHz")

-----------------------------------------------------------------------------
(* C19 *)

\* C19: monitor_active is true exactly when the published snapshot is not the
\* initial empty one; the snapshot is empty or the parse of a line that passed
\* the valid-observation rule; and monitor_active, once true, stays true
C19_EverObserved ==
    /\ [](monitor_active <=> monitor_parsed # EmptyDict)
    /\ [](\/ monitor_parsed = EmptyDict
          \/ \E l \in TeleLines :
                /\ monitor_parsed = parse_monitor_line(Strip(l))
                /\ Contains(l, ",")
                /\ PassesRule(Strip(l)))
    /\ [][monitor_active => monitor_active']_vars

\* an observation is still published after a failed reconnect and a failed command
C19_Witness ==
    /\ monitor_active
    /\ monitor_parsed = parse_monitor_line(Strip(GoodLine))
    /\ opener.result = "ConnectionError"
    /\ ~LinkOpen
    /\ req["r1"].pc = "done"
    /\ req["r1"].result.status \notin {"ok", "none"}

-----------------------------------------------------------------------------
(* C20 *)

\* the with blocks of each lock
SerialRegion(t) == req[t].pc \in {"write", "loop", "rdline"}
DataRegion(t) == req[t].pc = "poll"

\* a thread stands at an acquire of a lock that is taken
ReaderBlocked ==
    \/ reader.pc = "top" /\ ser # 0 /\ serial_lock # Free
    \/ reader.pc = "data" /\ data_lock # Free
Blocked(t) ==
    \/ req[t].pc = "lock" /\ serial_lock # Free
    \/ req[t].pc = "dlock" /\ data_lock # Free

\* C20: a lock is held exactly by a thread inside its with block, so that every
\* way out of the block has released it; no thread holds both locks; and the
\* reader and the request threads are never all blocked
C20_NoLockDeadlock ==
    /\ serial_lock = "reader" <=> reader.pc = "reading"
    /\ data_lock = "reader" <=> reader.pc = "publish"
    /\ \A t \in ReqThreads :
          /\ serial_lock = t <=> SerialRegion(t)
          /\ data_lock = t <=> DataRegion(t)
    /\ serial_lock = Free \/ data_lock = Free \/ serial_lock # data_lock
    /\ ~(ReaderBlocked /\ \A t \in ReqThreads : Blocked(t))

\* a write has failed inside the with block, and the reader has taken the lock
\* after it while a telemetry poll holds data_lock
C20_Witness ==
    /\ req["r1"].pc = "done"
    /\ req["r1"].result.status = "SerialException"
    /\ serial_lock = "reader"
    /\ data_lock = "r2"

=============================================================================
